---------------------------- MODULE Spec2Model ----------------------------
(***************************************************************************)
(* Model of the Pathfinder mesh debugger (demo/client/src/mesh-debugger.ts) *)
(*                                                                         *)
(* The state is the app controller (meshes, file, fileData, the partition  *)
(* promises in flight), the view (the four overlay flags, the dirty flag   *)
(* and the camera scale) and, as history, the handler that ran last with   *)
(* what it did: the key and the overlay before it for a key press, the     *)
(* canvas calls and the buffer reads for a redraw.                         *)
(*                                                                         *)
(* Floats are modelled as integers.  A canvas call is a record             *)
(*   [op, a, s, by, pk, pi]                                                *)
(* op the canvas method or property written, a its numeric arguments, s    *)
(* its string argument, by the function of mesh-debugger.ts that issued    *)
(* it, and (pk, pi) the primitive being drawn ("frame" for redraw's own    *)
(* prologue and epilogue, "bquad" i, "segment" j).                         *)
(***************************************************************************)
EXTENDS Integers, Sequences, FiniteSets

(* ------------------------------ bounds --------------------------------- *)

\* B-quads of the largest mesh
MaxBQuads == 2
\* stencil segments of the largest mesh
MaxSegments == 2
\* partition promises in flight at once
MaxPending == 2

(* ----------------------------- constants ------------------------------- *)

POINT_RADIUS == 2
SEGMENT_POINT_RADIUS == 3
SEGMENT_STROKE_WIDTH == 1
SEGMENT_CONTROL_POINT_STROKE_WIDTH == 1
NORMAL_LENGTHS == [bVertex |-> 10, edge |-> 14]
NORMAL_ARROWHEAD_LENGTH == 4
\* cos and sin of NORMAL_ARROWHEAD_ANGLE = 5*PI/6, in thousandths
NORMAL_ARROWHEAD_COS == -866
NORMAL_ARROWHEAD_SIN == 500
TrigScale == 1000

SEGMENT_POINT_FILL_STYLE == "rgb(0, 0, 128)"
LIGHT_STROKE_STYLE == "rgb(192, 192, 192)"
LINE_STROKE_STYLE == "rgb(0, 128, 0)"
CURVE_STROKE_STYLE == "rgb(128, 0, 0)"
SEGMENT_LINE_STROKE_STYLE == "rgb(128, 192, 128)"
SEGMENT_CONTROL_POINT_FILL_STYLE == "rgb(255, 255, 255)"
SEGMENT_CONTROL_POINT_STROKE_STYLE == "rgb(0, 0, 128)"
SEGMENT_CONTROL_POINT_HULL_STROKE_STYLE == "rgba(128, 128, 128, 0.5)"
NORMAL_STROKE_STYLES == [bVertex |-> "#e6aa00", edge |-> "#cc5500"]
POINT_LABEL_FONT == "sans-serif"

\* the glyph loaded on the initial page load
CHARACTER == "glyphA"

\* null, for a vec2, a mesh and a slot offset
NULL_VEC == <<>>
NULL_MESH == "null"
NULL_OFFSET == -1

(* ------------------------------- meshes -------------------------------- *)

\* the value a control-point slot of bQuadVertexPositions holds when the edge
\* is a straight line
MISSING_CONTROL_POINT == 0

\* what an out-of-range read of a Float32Array yields once cloned into a vec2
NaN == -999

FontGlyphs == {"glyphA", "glyphB"}
SvgPaths == {"path0"}
MeshIds == FontGlyphs \cup SvgPaths

\* the shape of the mesh the partitioner returns for a glyph or path:
\* B-quad count, segment count, and the B-quads whose upper / lower control
\* point is missing
MeshShape(id) ==
    CASE id = "glyphA" ->
           [nb |-> MaxBQuads, ns |-> MaxSegments,
            noUpper |-> {i \in 0..(MaxBQuads - 1) : i % 2 = 0},
            noLower |-> {i \in 0..(MaxBQuads - 1) : i % 2 = 1}]
      [] id = "glyphB" ->
           [nb |-> 1, ns |-> 0, noUpper |-> {0}, noLower |-> {0}]
      [] id = "path0" ->
           [nb |-> 0, ns |-> MaxSegments, noUpper |-> {}, noLower |-> {}]

\* PathfinderMeshData: flat buffers (1-based here, offset k of the code is
\* index k + 1) and element counts
PartitionResult(id) ==
    LET sh == MeshShape(id)
        slot(k) == ((k - 1) \div 2) % 6
        quad(k) == (k - 1) \div 12
        missing(k) == \/ slot(k) = 1 /\ quad(k) \in sh.noUpper
                      \/ slot(k) = 4 /\ quad(k) \in sh.noLower
    IN  [bQuadVertexPositionCount |-> sh.nb,
         bQuadVertexPositions |->
             [k \in 1..(sh.nb * 12) |->
                 IF missing(k) THEN MISSING_CONTROL_POINT ELSE k],
         stencilSegmentCount |-> sh.ns,
         stencilSegments |-> [k \in 1..(sh.ns * 6) |-> 100 + k],
         stencilNormals |-> [k \in 1..(sh.ns * 6) |-> (k % 3) - 1]]

\* positions[offset] of a Float32Array
At(buffer, offset) ==
    IF (offset + 1) \in DOMAIN buffer THEN buffer[offset + 1] ELSE NaN


(* ---------------------------- canvas calls ----------------------------- *)

Call(op, a, s) == [op |-> op, a |-> a, s |-> s, by |-> "", pk |-> "", pi |-> 0]

\* the calls, marked as issued by function `by` (calls of a callee keep its name)
By(calls, by) ==
    [k \in 1..Len(calls) |->
        IF calls[k].by = "" THEN [calls[k] EXCEPT !.by = by] ELSE calls[k]]

\* the calls, marked as drawing primitive (pk, pi)
Of(calls, pk, pi) ==
    [k \in 1..Len(calls) |-> [calls[k] EXCEPT !.pk = pk, !.pi = pi]]

(* --------------------------- buffer accessors -------------------------- *)

getPositionOffset(bQuadIndex, vertexIndex, component) ==
    (bQuadIndex * 6 + vertexIndex) * 2 + component

\* never null: the vec2 holds whatever the two floats are
getPosition(positions, bQuadIndex, vertexIndex) ==
    << At(positions, getPositionOffset(bQuadIndex, vertexIndex, 0)),
       At(positions, getPositionOffset(bQuadIndex, vertexIndex, 1)) >>

\* segmentOffset with the record stride counted in points, not in floats
segmentOffset_strideInPoints(segmentSize, segmentIndex, slotOffset, component) ==
    segmentSize * segmentIndex + slotOffset * 2 + component

segmentOffset(segmentSize, segmentIndex, slotOffset, component) ==
    segmentSize * 2 * segmentIndex + slotOffset * 2 + component

segmentPoint(buffer, segmentSize, segmentIndex, slotOffset) ==
    << At(buffer, segmentOffset(segmentSize, segmentIndex, slotOffset, 0)),
       At(buffer, segmentOffset(segmentSize, segmentIndex, slotOffset, 1)) >>

(* ---------------------------- draw helpers ----------------------------- *)

\* the arc's angles, 0 to 2 * PI, are not modelled
drawVertexIfNecessary(position, invScaleFactor) ==
    By(<< Call("beginPath", <<>>, ""),
          Call("moveTo", <<position[1], -position[2]>>, ""),
          Call("arc", <<position[1], -position[2], POINT_RADIUS * invScaleFactor>>, ""),
          Call("fill", <<>>, "") >>,
       "drawVertexIfNecessary")

\* drawSegmentVertex without its closing restore
drawSegmentVertex_noRestore(position, invScaleFactor) ==
    By(<< Call("save", <<>>, ""),
          Call("fillStyle", <<>>, SEGMENT_POINT_FILL_STYLE),
          Call("lineWidth", <<invScaleFactor * SEGMENT_STROKE_WIDTH>>, ""),
          Call("beginPath", <<>>, ""),
          Call("arc", <<position[1], -position[2],
                        SEGMENT_POINT_RADIUS * invScaleFactor>>, ""),
          Call("fill", <<>>, "") >>,
       "drawSegmentVertex")

drawSegmentVertex(position, invScaleFactor) ==
    By(<< Call("save", <<>>, ""),
          Call("fillStyle", <<>>, SEGMENT_POINT_FILL_STYLE),
          Call("lineWidth", <<invScaleFactor * SEGMENT_STROKE_WIDTH>>, ""),
          Call("beginPath", <<>>, ""),
          Call("arc", <<position[1], -position[2],
                        SEGMENT_POINT_RADIUS * invScaleFactor>>, ""),
          Call("fill", <<>>, ""),
          Call("restore", <<>>, "") >>,
       "drawSegmentVertex")

drawSegmentControlPoint(position, invScaleFactor) ==
    By(<< Call("save", <<>>, ""),
          Call("strokeStyle", <<>>, SEGMENT_CONTROL_POINT_STROKE_STYLE),
          Call("fillStyle", <<>>, SEGMENT_CONTROL_POINT_FILL_STYLE),
          Call("lineWidth", <<invScaleFactor * SEGMENT_CONTROL_POINT_STROKE_WIDTH>>, ""),
          Call("beginPath", <<>>, ""),
          Call("arc", <<position[1], -position[2],
                        SEGMENT_POINT_RADIUS * invScaleFactor>>, ""),
          Call("fill", <<>>, ""),
          Call("stroke", <<>>, ""),
          Call("restore", <<>>, "") >>,
       "drawSegmentControlPoint")

\* x * cos or sin of the arrowhead angle, rounded down to a whole unit
Trig(x) == x \div TrigScale

\* drawNormal stroking the shaft and each wing as a path of its own
drawNormal_threeStrokes(position, normalVector, invScaleFactor, normalType) ==
    LET length == invScaleFactor * NORMAL_LENGTHS[normalType]
        arrowheadLength == invScaleFactor * NORMAL_ARROWHEAD_LENGTH
        endpoint == << position[1] + length * normalVector[1],
                       (-position[2]) + length * (-normalVector[2]) >>
    IN  By(<< Call("save", <<>>, ""),
              Call("strokeStyle", <<>>, NORMAL_STROKE_STYLES[normalType]),
              Call("beginPath", <<>>, ""),
              Call("moveTo", <<position[1], -position[2]>>, ""),
              Call("lineTo", <<endpoint[1], endpoint[2]>>, ""),
              Call("stroke", <<>>, ""),
              Call("beginPath", <<>>, ""),
              Call("moveTo", <<endpoint[1], endpoint[2]>>, ""),
              Call("lineTo",
                   << endpoint[1] + Trig(arrowheadLength *
                          (NORMAL_ARROWHEAD_COS * normalVector[1] +
                           NORMAL_ARROWHEAD_SIN * normalVector[2])),
                      endpoint[2] + Trig(arrowheadLength *
                          (NORMAL_ARROWHEAD_SIN * normalVector[1] -
                           NORMAL_ARROWHEAD_COS * normalVector[2])) >>, ""),
              Call("stroke", <<>>, ""),
              Call("beginPath", <<>>, ""),
              Call("moveTo", <<endpoint[1], endpoint[2]>>, ""),
              Call("lineTo",
                   << endpoint[1] + Trig(arrowheadLength *
                          (NORMAL_ARROWHEAD_COS * normalVector[1] -
                           NORMAL_ARROWHEAD_SIN * normalVector[2])),
                      endpoint[2] - Trig(arrowheadLength *
                          (NORMAL_ARROWHEAD_COS * normalVector[2] +
                           NORMAL_ARROWHEAD_SIN * normalVector[1])) >>, ""),
              Call("stroke", <<>>, ""),
              Call("restore", <<>>, "") >>,
           "drawNormal")

drawNormal(position, normalVector, invScaleFactor, normalType) ==
    LET length == invScaleFactor * NORMAL_LENGTHS[normalType]
        arrowheadLength == invScaleFactor * NORMAL_ARROWHEAD_LENGTH
        endpoint == << position[1] + length * normalVector[1],
                       (-position[2]) + length * (-normalVector[2]) >>
    IN  By(<< Call("save", <<>>, ""),
              Call("strokeStyle", <<>>, NORMAL_STROKE_STYLES[normalType]),
              Call("beginPath", <<>>, ""),
              Call("moveTo", <<position[1], -position[2]>>, ""),
              Call("lineTo", <<endpoint[1], endpoint[2]>>, ""),
              Call("lineTo",
                   << endpoint[1] + Trig(arrowheadLength *
                          (NORMAL_ARROWHEAD_COS * normalVector[1] +
                           NORMAL_ARROWHEAD_SIN * normalVector[2])),
                      endpoint[2] + Trig(arrowheadLength *
                          (NORMAL_ARROWHEAD_SIN * normalVector[1] -
                           NORMAL_ARROWHEAD_COS * normalVector[2])) >>, ""),
              Call("stroke", <<>>, ""),
              Call("beginPath", <<>>, ""),
              Call("moveTo", <<endpoint[1], endpoint[2]>>, ""),
              Call("lineTo",
                   << endpoint[1] + Trig(arrowheadLength *
                          (NORMAL_ARROWHEAD_COS * normalVector[1] -
                           NORMAL_ARROWHEAD_SIN * normalVector[2])),
                      endpoint[2] - Trig(arrowheadLength *
                          (NORMAL_ARROWHEAD_COS * normalVector[2] +
                           NORMAL_ARROWHEAD_SIN * normalVector[1])) >>, ""),
              Call("stroke", <<>>, ""),
              Call("restore", <<>>, "") >>,
           "drawNormal")

(* -------------------------- drawSegmentVertices ------------------------ *)

\* segmentNormals drawing the control-point arrow whatever drawControl is
segmentNormals_ignoresDrawControl(position0, position1, controlPoint, normal0, normal1, normalControlPoint, invScaleFactor, drawControl, drawNormals) ==
    IF drawNormals
    THEN drawNormal(position0, normal0, invScaleFactor, "edge")
         \o drawNormal(position1, normal1, invScaleFactor, "edge")
         \o (IF controlPoint # NULL_VEC /\ normalControlPoint # NULL_VEC
             THEN drawNormal(controlPoint, normalControlPoint, invScaleFactor, "edge")
             ELSE <<>>)
    ELSE <<>>

\* lines 447-452: the normal arrows of one segment
segmentNormals(position0, position1, controlPoint, normal0, normal1, normalControlPoint, invScaleFactor, drawControl, drawNormals) ==
    IF drawNormals
    THEN drawNormal(position0, normal0, invScaleFactor, "edge")
         \o drawNormal(position1, normal1, invScaleFactor, "edge")
         \o (IF drawControl /\ controlPoint # NULL_VEC /\ normalControlPoint # NULL_VEC
             THEN drawNormal(controlPoint, normalControlPoint, invScaleFactor, "edge")
             ELSE <<>>)
    ELSE <<>>

\* lines 454-455: the endpoint markers of one segment
segmentEndpoints(position0, position1, invScaleFactor) ==
    drawSegmentVertex(position0, invScaleFactor)
    \o drawSegmentVertex(position1, invScaleFactor)

\* lines 456-467: the dashed control hull and the control-point marker
segmentControl(position0, position1, controlPoint, invScaleFactor, drawControl) ==
    IF drawControl /\ controlPoint # NULL_VEC
    THEN << Call("save", <<>>, ""),
            Call("strokeStyle", <<>>, SEGMENT_CONTROL_POINT_HULL_STROKE_STYLE),
            Call("setLineDash", <<2 * invScaleFactor, 2 * invScaleFactor>>, ""),
            Call("beginPath", <<>>, ""),
            Call("moveTo", <<position0[1], -position0[2]>>, ""),
            Call("lineTo", <<controlPoint[1], -controlPoint[2]>>, ""),
            Call("lineTo", <<position1[1], -position1[2]>>, ""),
            Call("stroke", <<>>, ""),
            Call("restore", <<>>, "") >>
         \o drawSegmentControlPoint(controlPoint, invScaleFactor)
    ELSE <<>>

\* lines 470-478: the plain chord p0 -> p1
segmentChord(position0, position1, drawSegments) ==
    IF drawSegments
    THEN << Call("save", <<>>, ""),
            Call("strokeStyle", <<>>, SEGMENT_LINE_STROKE_STYLE),
            Call("beginPath", <<>>, ""),
            Call("moveTo", <<position0[1], -position0[2]>>, ""),
            Call("lineTo", <<position1[1], -position1[2]>>, ""),
            Call("stroke", <<>>, ""),
            Call("restore", <<>>, "") >>
    ELSE <<>>

\* one iteration of the loop of drawSegmentVertices
drawSegmentVerticesBody(segments, normals, segmentIndex, endpointOffsets, controlPointOffset, segmentSize, invScaleFactor, drawControl, drawNormals, drawSegments) ==
    LET position0 == segmentPoint(segments, segmentSize, segmentIndex, endpointOffsets[1])
        position1 == segmentPoint(segments, segmentSize, segmentIndex, endpointOffsets[2])
        controlPoint ==
            IF controlPointOffset # NULL_OFFSET
            THEN segmentPoint(segments, segmentSize, segmentIndex, controlPointOffset)
            ELSE NULL_VEC
        normal0 == segmentPoint(normals, segmentSize, segmentIndex, endpointOffsets[1])
        normal1 == segmentPoint(normals, segmentSize, segmentIndex, endpointOffsets[2])
        normalControlPoint ==
            IF controlPointOffset # NULL_OFFSET
            THEN segmentPoint(normals, segmentSize, segmentIndex, controlPointOffset)
            ELSE NULL_VEC
    IN  Of(By(segmentNormals(position0, position1, controlPoint, normal0, normal1,
                             normalControlPoint, invScaleFactor, drawControl, drawNormals)
              \o segmentEndpoints(position0, position1, invScaleFactor)
              \o segmentControl(position0, position1, controlPoint, invScaleFactor,
                                drawControl)
              \o segmentChord(position0, position1, drawSegments),
              "drawSegmentVertices"),
           "segment", segmentIndex)

RECURSIVE drawSegmentVerticesFrom(_, _, _, _, _, _, _, _, _, _, _)
drawSegmentVerticesFrom(segmentIndex, segments, normals, segmentCount, endpointOffsets, controlPointOffset, segmentSize, invScaleFactor, drawControl, drawNormals, drawSegments) ==
    IF segmentIndex < segmentCount
    THEN drawSegmentVerticesBody(segments, normals, segmentIndex, endpointOffsets,
                                 controlPointOffset, segmentSize, invScaleFactor,
                                 drawControl, drawNormals, drawSegments)
         \o drawSegmentVerticesFrom(segmentIndex + 1, segments, normals, segmentCount,
                                    endpointOffsets, controlPointOffset, segmentSize,
                                    invScaleFactor, drawControl, drawNormals, drawSegments)
    ELSE <<>>

drawSegmentVertices(segments, normals, segmentCount, endpointOffsets, controlPointOffset, segmentSize, invScaleFactor, drawControl, drawNormals, drawSegments) ==
    drawSegmentVerticesFrom(0, segments, normals, segmentCount, endpointOffsets,
                            controlPointOffset, segmentSize, invScaleFactor,
                            drawControl, drawNormals, drawSegments)

\* the buffer reads of drawSegmentVertices
segmentReads(segmentCount, endpointOffsets, controlPointOffset, segmentSize) ==
    { [buf |-> b, prim |-> j, slot |-> sl, comp |-> c,
       off |-> segmentOffset(segmentSize, j, sl, c)] :
        b \in {"stencilSegments", "stencilNormals"},
        j \in 0..(segmentCount - 1),
        sl \in {endpointOffsets[1], endpointOffsets[2]}
               \cup (IF controlPointOffset # NULL_OFFSET THEN {controlPointOffset} ELSE {}),
        c \in 0..1 }

(* ------------------------------- redraw -------------------------------- *)

\* lines 298-310 and 318-330: one curved or straight edge of a B-quad
bQuadEdge(from, controlPointPosition, to, edge) ==
    By(<< Call("beginPath", <<>>, ""),
          Call("moveTo", <<from[1], -from[2]>>, "") >>
       \o (IF controlPointPosition # NULL_VEC
           THEN << Call("strokeStyle", <<>>, CURVE_STROKE_STYLE),
                   Call("quadraticCurveTo",
                        <<controlPointPosition[1], -controlPointPosition[2],
                          to[1], -to[2]>>, "") >>
           ELSE << Call("strokeStyle", <<>>, LINE_STROKE_STYLE),
                   Call("lineTo", <<to[1], -to[2]>>, "") >>)
       \o << Call("stroke", <<>>, "") >>,
       edge)

\* bQuadSide ending its line at the mesh point's own y
bQuadSide_endNotFlipped(from, to, side) ==
    By(<< Call("strokeStyle", <<>>, LIGHT_STROKE_STYLE),
          Call("beginPath", <<>>, ""),
          Call("moveTo", <<from[1], -from[2]>>, ""),
          Call("lineTo", <<to[1], to[2]>>, ""),
          Call("stroke", <<>>, "") >>,
       side)

\* lines 312-316 and 332-336: one light side of a B-quad
bQuadSide(from, to, side) ==
    By(<< Call("strokeStyle", <<>>, LIGHT_STROKE_STYLE),
          Call("beginPath", <<>>, ""),
          Call("moveTo", <<from[1], -from[2]>>, ""),
          Call("lineTo", <<to[1], -to[2]>>, ""),
          Call("stroke", <<>>, "") >>,
       side)

\* lines 291-296: the four corner dots
bQuadVertices(upperLeftPosition, upperRightPosition, lowerLeftPosition, lowerRightPosition, invScaleFactor, drawVertices) ==
    IF drawVertices
    THEN drawVertexIfNecessary(upperLeftPosition, invScaleFactor)
         \o drawVertexIfNecessary(upperRightPosition, invScaleFactor)
         \o drawVertexIfNecessary(lowerLeftPosition, invScaleFactor)
         \o drawVertexIfNecessary(lowerRightPosition, invScaleFactor)
    ELSE <<>>

\* one iteration of the B-quad loop of redraw
redrawBQuad(bQuadVertexPositions, bQuadIndex, invScaleFactor, drawVertices) ==
    LET upperLeftPosition == getPosition(bQuadVertexPositions, bQuadIndex, 0)
        upperControlPointPosition == getPosition(bQuadVertexPositions, bQuadIndex, 1)
        upperRightPosition == getPosition(bQuadVertexPositions, bQuadIndex, 2)
        lowerRightPosition == getPosition(bQuadVertexPositions, bQuadIndex, 3)
        lowerControlPointPosition == getPosition(bQuadVertexPositions, bQuadIndex, 4)
        lowerLeftPosition == getPosition(bQuadVertexPositions, bQuadIndex, 5)
    IN  Of(bQuadVertices(upperLeftPosition, upperRightPosition, lowerLeftPosition,
                         lowerRightPosition, invScaleFactor, drawVertices)
           \o bQuadEdge(upperLeftPosition, upperControlPointPosition,
                        upperRightPosition, "redraw:upperEdge")
           \o bQuadSide(upperRightPosition, lowerRightPosition, "redraw:rightSide")
           \o bQuadEdge(lowerRightPosition, lowerControlPointPosition,
                        lowerLeftPosition, "redraw:lowerEdge")
           \o bQuadSide(lowerLeftPosition, upperLeftPosition, "redraw:leftSide"),
           "bquad", bQuadIndex)

RECURSIVE redrawBQuadsFrom(_, _, _, _, _)
redrawBQuadsFrom(bQuadIndex, bQuadVertexPositions, bQuadVertexPositionCount, invScaleFactor, drawVertices) ==
    IF bQuadIndex < bQuadVertexPositionCount
    THEN redrawBQuad(bQuadVertexPositions, bQuadIndex, invScaleFactor, drawVertices)
         \o redrawBQuadsFrom(bQuadIndex + 1, bQuadVertexPositions,
                             bQuadVertexPositionCount, invScaleFactor, drawVertices)
    ELSE <<>>

\* the buffer reads of the B-quad loop
bQuadReads(bQuadVertexPositionCount) ==
    { [buf |-> "bQuadVertexPositions", prim |-> i, slot |-> v, comp |-> c,
       off |-> getPositionOffset(i, v, c)] :
        i \in 0..(bQuadVertexPositionCount - 1), v \in 0..5, c \in 0..1 }

\* window.devicePixelRatio
DEVICE_PIXEL_RATIO == 2
CameraScales == {1, 2}

\* lines 259-269: clear, then the frame's scope and camera transform.  The
\* canvas size and the camera translation are not modelled.
redrawPrologue(cameraScale, invScaleFactor) ==
    << Call("clearRect", <<0, 0>>, "canvas.width, canvas.height"),
       Call("save", <<>>, ""),
       Call("translate", <<>>,
            "camera.translation[0], canvas.height - camera.translation[1]"),
       Call("scale", <<cameraScale, cameraScale>>, ""),
       Call("font", <<>>, "12px sans-serif"),
       Call("lineWidth", <<invScaleFactor>>, "") >>

\* lines 339-352: the segments, drawn only with drawVertices
redrawSegments(mesh, invScaleFactor, o) ==
    IF o.drawVertices
    THEN drawSegmentVertices(mesh.stencilSegments, mesh.stencilNormals,
                             mesh.stencilSegmentCount, <<0, 2>>, 1, 3,
                             invScaleFactor, o.drawControl, o.drawNormals,
                             o.drawSegments)
    ELSE <<>>

\* lines 259-353: redraw once a mesh is known to be loaded
redrawMesh(meshes, o, cameraScale) ==
    LET mesh == PartitionResult(meshes)
        invScaleFactor == DEVICE_PIXEL_RATIO \div cameraScale
    IN  Of(By(redrawPrologue(cameraScale, invScaleFactor), "redraw"), "frame", 0)
        \o redrawBQuadsFrom(0, mesh.bQuadVertexPositions,
                            mesh.bQuadVertexPositionCount,
                            invScaleFactor, o.drawVertices)
        \o redrawSegments(mesh, invScaleFactor, o)
        \o Of(By(<< Call("restore", <<>>, "") >>, "redraw"), "frame", 0)

\* redraw clearing the canvas before it looks at meshes
redraw_clearsBeforeMeshCheck(meshes, o, cameraScale) ==
    IF meshes = NULL_MESH
    THEN Of(By(<< Call("clearRect", <<0, 0>>, "canvas.width, canvas.height") >>,
               "redraw"), "frame", 0)
    ELSE redrawMesh(meshes, o, cameraScale)

\* the canvas calls of MeshDebuggerView.redraw, for appController.meshes
\* (a mesh id or null), the overlay flags o and the camera scale
redraw(meshes, o, cameraScale) ==
    IF meshes = NULL_MESH THEN <<>> ELSE redrawMesh(meshes, o, cameraScale)

\* the buffer reads of MeshDebuggerView.redraw
redrawReads(meshes, o) ==
    IF meshes = NULL_MESH
    THEN {}
    ELSE LET mesh == PartitionResult(meshes)
         IN  bQuadReads(mesh.bQuadVertexPositionCount)
             \cup (IF o.drawVertices
                   THEN segmentReads(mesh.stencilSegmentCount, <<0, 2>>, 1, 3)
                   ELSE {})

(* ------------------------------ key input ------------------------------ *)

Keys == {"c", "n", "v", "r", "x"}

\* onKeyPress with a reset that forgets drawVertices
onKeyPress_resetKeepsVertices(o, key) ==
    IF key = "c" THEN [o EXCEPT !.drawControl = ~o.drawControl]
    ELSE IF key = "n" THEN [o EXCEPT !.drawNormals = ~o.drawNormals]
    ELSE IF key = "v" THEN [o EXCEPT !.drawVertices = ~o.drawVertices]
    ELSE IF key = "r"
         THEN [o EXCEPT !.drawControl = TRUE, !.drawNormals = TRUE]
    ELSE o

\* onKeyPress with 'n' toggling the flag of 'c'
onKeyPress_nTogglesControl(o, key) ==
    IF key = "c" THEN [o EXCEPT !.drawControl = ~o.drawControl]
    ELSE IF key = "n" THEN [o EXCEPT !.drawControl = ~o.drawControl]
    ELSE IF key = "v" THEN [o EXCEPT !.drawVertices = ~o.drawVertices]
    ELSE IF key = "r"
         THEN [o EXCEPT !.drawControl = TRUE, !.drawNormals = TRUE,
                        !.drawVertices = TRUE]
    ELSE o

\* onKeyPress with a reset that turns every overlay flag on
onKeyPress_resetSetsSegments(o, key) ==
    IF key = "c" THEN [o EXCEPT !.drawControl = ~o.drawControl]
    ELSE IF key = "n" THEN [o EXCEPT !.drawNormals = ~o.drawNormals]
    ELSE IF key = "v" THEN [o EXCEPT !.drawVertices = ~o.drawVertices]
    ELSE IF key = "r"
         THEN [o EXCEPT !.drawControl = TRUE, !.drawNormals = TRUE,
                        !.drawVertices = TRUE, !.drawSegments = TRUE]
    ELSE o

\* the overlay flags after onKeyPress, from the flags o before
onKeyPress(o, key) ==
    IF key = "c" THEN [o EXCEPT !.drawControl = ~o.drawControl]
    ELSE IF key = "n" THEN [o EXCEPT !.drawNormals = ~o.drawNormals]
    ELSE IF key = "v" THEN [o EXCEPT !.drawVertices = ~o.drawVertices]
    ELSE IF key = "r"
         THEN [o EXCEPT !.drawControl = TRUE, !.drawNormals = TRUE,
                        !.drawVertices = TRUE]
    ELSE o

\* whether onKeyPress calls setDirty: line 369, after the chain, for every key
onKeyPressSetsDirty(key) == TRUE

(* -------------------------------- state -------------------------------- *)

VARIABLES
    meshes,        \* appController.meshes: a mesh id or NULL_MESH
    file,          \* appController.file: "null", "font" or "svg"
    fileData,      \* appController.fileData != null
    pending,       \* partition promises not yet resolved, in loadPath order
    latest,        \* history: what the loadPath invoked last asked to partition
    drawControl, drawNormals, drawVertices, drawSegments,
    dirty,         \* PathfinderView.dirty: a redraw is scheduled
    camera,        \* camera.scale
    last,          \* history: the handler that ran last and what it did
    invoked        \* a function called on its own: its arguments not held above

vars == << meshes, file, fileData, pending, latest, drawControl, drawNormals,
           drawVertices, drawSegments, dirty, camera, last, invoked >>

Overlay == [drawControl |-> drawControl, drawNormals |-> drawNormals,
            drawVertices |-> drawVertices, drawSegments |-> drawSegments]

\* the history record of a handler: the key and the overlay before it (a key
\* press), meshes and dirty before it (loadPath), whether it called setDirty,
\* and the canvas calls and buffer reads it made (redraw)
Ran(op, key, pre, preMeshes, preDirty, setDirty, calls, reads) ==
    [op |-> op, key |-> key, pre |-> pre, preMeshes |-> preMeshes,
     preDirty |-> preDirty, setDirty |-> setDirty, calls |-> calls,
     reads |-> reads]

DefaultOverlay == [drawControl |-> TRUE, drawNormals |-> TRUE,
                   drawVertices |-> TRUE, drawSegments |-> FALSE]

\* a handler of which only the name and the setDirty call are recorded
RanOnly(op, setDirty) ==
    Ran(op, "", DefaultOverlay, NULL_MESH, FALSE, setDirty, <<>>, {})

\* no function is called on its own
NoCall == [fn |-> "", controlPointOffset |-> NULL_OFFSET, returned |-> FALSE]

Init ==
    /\ meshes = NULL_MESH
    /\ file = "null"
    /\ fileData = FALSE
    /\ pending = <<>>
    /\ latest = NULL_MESH
    /\ drawControl = TRUE
    /\ drawNormals = TRUE
    /\ drawVertices = TRUE
    /\ drawSegments = FALSE
    /\ dirty = FALSE
    /\ camera = 1
    /\ last = RanOnly("start", FALSE)
    /\ invoked = NoCall

(* ------------------------------- actions ------------------------------- *)

\* window 'keypress' -> MeshDebuggerView.onKeyPress
KeyPress(key) ==
    LET o == onKeyPress(Overlay, key)
    IN  /\ drawControl' = o.drawControl
        /\ drawNormals' = o.drawNormals
        /\ drawVertices' = o.drawVertices
        /\ drawSegments' = o.drawSegments
        /\ dirty' = (dirty \/ onKeyPressSetsDirty(key))
        /\ last' = Ran("onKeyPress", key, Overlay, NULL_MESH, FALSE,
                      onKeyPressSetsDirty(key), <<>>, {})
        /\ UNCHANGED << invoked, latest, meshes, file, fileData, pending, camera >>

\* the animation frame setDirty requested -> MeshDebuggerView.redraw;
\* super.redraw() clears the dirty flag
Redraw ==
    /\ dirty
    /\ dirty' = FALSE
    /\ last' = Ran("redraw", "", Overlay, meshes, FALSE, FALSE,
                   redraw(meshes, Overlay, camera), redrawReads(meshes, Overlay))
    /\ UNCHANGED << invoked, latest, meshes, file, fileData, pending, drawControl, drawNormals,
                    drawVertices, drawSegments, camera >>

\* camera.onPan / camera.onZoom -> setDirty
CameraChanged(scale) ==
    /\ camera' = scale
    /\ dirty' = TRUE
    /\ last' = RanOnly("camera", TRUE)
    /\ UNCHANGED << invoked, latest, meshes, file, fileData, pending, drawControl, drawNormals,
                    drawVertices, drawSegments >>

\* fileLoaded with fileType 'font' -> fontLoaded, which loads CHARACTER's
\* path when no mesh has been loaded yet
FontLoaded ==
    /\ meshes = NULL_MESH => Len(pending) < MaxPending
    /\ file' = "font"
    /\ fileData' = TRUE
    /\ pending' = IF meshes = NULL_MESH THEN Append(pending, CHARACTER) ELSE pending
    /\ latest' = IF meshes = NULL_MESH THEN CHARACTER ELSE latest
    /\ last' = RanOnly("fontLoaded", FALSE)
    /\ UNCHANGED << invoked, meshes, drawControl, drawNormals, drawVertices, drawSegments,
                    dirty, camera >>

\* fileLoaded with fileType 'svg' -> svgLoaded
SvgLoaded ==
    /\ file' = "svg"
    /\ last' = RanOnly("svgLoaded", FALSE)
    /\ UNCHANGED << invoked, latest, meshes, fileData, pending, drawControl, drawNormals,
                    drawVertices, drawSegments, dirty, camera >>

\* the OK button -> loadPath(), with the entry selected in fontPathSelect
LoadPath ==
    /\ \/ /\ file = "font" /\ fileData
          /\ Len(pending) < MaxPending
          /\ \E glyph \in FontGlyphs :
                /\ pending' = Append(pending, glyph)
                /\ latest' = glyph
       \/ /\ file = "svg"
          /\ Len(pending) < MaxPending
          /\ \E path \in SvgPaths :
                /\ pending' = Append(pending, path)
                /\ latest' = path
       \/ /\ ~(file = "font" /\ fileData) /\ file # "svg"
          /\ pending' = pending
          /\ latest' = latest
    /\ last' = Ran("loadPath", "", DefaultOverlay, meshes, dirty, FALSE, <<>>, {})
    /\ UNCHANGED << invoked, meshes, file, fileData, drawControl, drawNormals,
                    drawVertices, drawSegments, dirty, camera >>

\* a partition promise resolves: meshes is assigned and attachMeshes sets dirty
PartitionResolved(k) ==
    /\ k \in 1..Len(pending)
    /\ meshes' = pending[k]
    /\ pending' = SubSeq(pending, 1, k - 1) \o SubSeq(pending, k + 1, Len(pending))
    /\ dirty' = TRUE
    /\ last' = RanOnly("partitionResolved", TRUE)
    /\ UNCHANGED << invoked, latest, file, fileData, drawControl, drawNormals, drawVertices,
                    drawSegments, camera >>

Next ==
    \/ \E key \in Keys : KeyPress(key)
    \/ Redraw
    \/ \E scale \in CameraScales : CameraChanged(scale)
    \/ FontLoaded
    \/ SvgLoaded
    \/ LoadPath
    \/ \E k \in 1..MaxPending : PartitionResolved(k)

Spec == Init /\ [][Next]_vars

(* ------------------- drawSegmentVertices on its own -------------------- *)

\* the arguments of a call of drawSegmentVertices: the buffers and count of a
\* mesh, endpoint slots 0 and 2, a control-point slot that is 1 or null, any
\* three flags and either scale factor
InitSegments ==
    /\ meshes \in MeshIds
    /\ file = "null"
    /\ fileData = FALSE
    /\ pending = <<>>
    /\ latest = NULL_MESH
    /\ drawControl \in BOOLEAN
    /\ drawNormals \in BOOLEAN
    /\ drawVertices = TRUE
    /\ drawSegments \in BOOLEAN
    /\ dirty = FALSE
    /\ camera \in CameraScales
    /\ last = RanOnly("start", FALSE)
    /\ invoked \in [fn : {"drawSegmentVertices"},
                 controlPointOffset : {NULL_OFFSET, 1},
                 returned : {FALSE}]

CallDrawSegmentVertices ==
    /\ invoked.fn = "drawSegmentVertices" /\ ~invoked.returned
    /\ invoked' = [invoked EXCEPT !.returned = TRUE]
    /\ last' = Ran("drawSegmentVertices", "", Overlay, meshes, FALSE, FALSE,
                   drawSegmentVertices(PartitionResult(meshes).stencilSegments,
                                       PartitionResult(meshes).stencilNormals,
                                       PartitionResult(meshes).stencilSegmentCount,
                                       <<0, 2>>, invoked.controlPointOffset, 3,
                                       DEVICE_PIXEL_RATIO \div camera,
                                       drawControl, drawNormals, drawSegments),
                   segmentReads(PartitionResult(meshes).stencilSegmentCount,
                                <<0, 2>>, invoked.controlPointOffset, 3))
    /\ UNCHANGED << latest, meshes, file, fileData, pending, drawControl, drawNormals,
                    drawVertices, drawSegments, dirty, camera >>

NextSegments == CallDrawSegmentVertices

SpecSegments == InitSegments /\ [][NextSegments]_vars

(* ----------------------------- key presses ----------------------------- *)

KeyPressed(key) == last.op = "onKeyPress" /\ last.key = key

\* C1: after a key press with key 'r', drawControl, drawNormals and
\* drawVertices are all true whatever they were before, and drawSegments has
\* the value it had before; and onKeyPress keeps drawSegments on 'r' for both
\* of its values.
C1_ResetRestoresTriple ==
    /\ KeyPressed("r") =>
          /\ drawControl /\ drawNormals /\ drawVertices
          /\ drawSegments = last.pre.drawSegments
    /\ \A ds \in BOOLEAN :
          LET o == onKeyPress([Overlay EXCEPT !.drawSegments = ds], "r")
          IN  o.drawSegments = ds /\ o.drawControl /\ o.drawNormals /\ o.drawVertices

\* 'r' was pressed with all three flags off
C1_Witness ==
    /\ KeyPressed("r")
    /\ ~last.pre.drawControl /\ ~last.pre.drawNormals /\ ~last.pre.drawVertices
    /\ drawControl /\ drawNormals /\ drawVertices

\* C2: a key press whose key is none of 'c', 'n', 'v', 'r' keeps the four
\* overlay booleans and issues no redraw request.
C2_UnknownKeyNoSideEffect ==
    (last.op = "onKeyPress" /\ last.key \notin {"c", "n", "v", "r"}) =>
        /\ Overlay = last.pre
        /\ ~last.setDirty

\* C3: a key press with 'c', 'n' or 'v' negates exactly its own flag, keeps
\* the other three, and requests a redraw; pressing the same key again gives
\* back the overlay that held before.
C3_ToggleOwnFlag ==
    /\ KeyPressed("c") =>
          Overlay = [last.pre EXCEPT !.drawControl = ~last.pre.drawControl]
    /\ KeyPressed("n") =>
          Overlay = [last.pre EXCEPT !.drawNormals = ~last.pre.drawNormals]
    /\ KeyPressed("v") =>
          Overlay = [last.pre EXCEPT !.drawVertices = ~last.pre.drawVertices]
    /\ (last.op = "onKeyPress" /\ last.key \in {"c", "n", "v"}) =>
          /\ last.setDirty /\ dirty
          /\ onKeyPress(Overlay, last.key) = last.pre

\* 'n' was pressed while drawControl was off and drawNormals on
C3_Witness ==
    /\ KeyPressed("n")
    /\ ~last.pre.drawControl /\ last.pre.drawNormals
    /\ ~drawControl /\ ~drawNormals /\ dirty

(* ------------------------------- redraws ------------------------------- *)

\* the last handler was a redraw; a redraw with a mesh loaded
Redrawn == last.op = "redraw"
RedrawnMesh == Redrawn /\ last.preMeshes # NULL_MESH

\* the mesh of the last redraw
DrawnMesh == PartitionResult(last.preMeshes)

NotCornerDot(call) == call.by # "drawVertexIfNecessary"

HasOp(calls, op) == \E k \in 1..Len(calls) : calls[k].op = op
HasStyle(calls, style) ==
    \E k \in 1..Len(calls) : calls[k].op = "strokeStyle" /\ calls[k].s = style

\* C4: the calls of a redraw with drawVertices = false are those of the redraw
\* of the same mesh, flags and camera with drawVertices = true, less the
\* B-quad corner-dot calls: edge strokes and segment calls are the same.
C4_VerticesOffRemovesOnlyDots ==
    (RedrawnMesh /\ ~last.pre.drawVertices) =>
        last.calls =
            SelectSeq(redraw(last.preMeshes,
                             [last.pre EXCEPT !.drawVertices = TRUE], camera),
                      NotCornerDot)

\* the calls that draw edge `edge` of B-quad i in the last redraw
EdgeCalls(i, edge) ==
    LET IsEdge(call) == call.pk = "bquad" /\ call.pi = i /\ call.by = edge
    IN  SelectSeq(last.calls, IsEdge)

\* the control point at slot vertexIndex of B-quad i is missing in the buffer
ControlPointMissing(i, vertexIndex) ==
    /\ At(DrawnMesh.bQuadVertexPositions, (i * 6 + vertexIndex) * 2) = MISSING_CONTROL_POINT
    /\ At(DrawnMesh.bQuadVertexPositions, (i * 6 + vertexIndex) * 2 + 1) = MISSING_CONTROL_POINT

EdgeFollowsControlPoint(i, vertexIndex, edge) ==
    LET e == EdgeCalls(i, edge)
    IN  IF ControlPointMissing(i, vertexIndex)
        THEN /\ HasOp(e, "lineTo") /\ ~HasOp(e, "quadraticCurveTo")
             /\ HasStyle(e, LINE_STROKE_STYLE) /\ ~HasStyle(e, CURVE_STROKE_STYLE)
        ELSE /\ HasOp(e, "quadraticCurveTo") /\ ~HasOp(e, "lineTo")
             /\ HasStyle(e, CURVE_STROKE_STYLE) /\ ~HasStyle(e, LINE_STROKE_STYLE)

\* C5: for every B-quad and each of its two edges, redraw issues a lineTo with
\* the line stroke colour when the edge's control point is missing in the
\* buffer and a quadraticCurveTo with the curve stroke colour when it is there.
C5_EdgeTypeFollowsControlPoint ==
    RedrawnMesh =>
        \A i \in 0..(DrawnMesh.bQuadVertexPositionCount - 1) :
            /\ EdgeFollowsControlPoint(i, 1, "redraw:upperEdge")
            /\ EdgeFollowsControlPoint(i, 4, "redraw:lowerEdge")

\* C6: with no mesh loaded redraw makes no canvas call and keeps the overlay;
\* with a mesh loaded its first canvas call is clearRect, and no later one is.
C6_NoMeshNoDraw ==
    Redrawn =>
        IF last.preMeshes = NULL_MESH
        THEN last.calls = <<>> /\ Overlay = last.pre
        ELSE /\ Len(last.calls) >= 1
             /\ last.calls[1].op = "clearRect"
             /\ \A k \in 2..Len(last.calls) : last.calls[k].op # "clearRect"

\* a redraw ran while no mesh was loaded
C6_Witness == Redrawn /\ last.preMeshes = NULL_MESH /\ meshes = NULL_MESH /\ ~dirty

(* ---------------------------- normal arrows ---------------------------- *)

Indices(calls) == [k \in 1..Len(calls) |-> k]

\* the first index from k on of a call that is `op` issued by `by`
FirstFrom(calls, k, by, op) ==
    CHOOSE m \in k..Len(calls) :
        /\ calls[m].by = by /\ calls[m].op = op
        /\ \A n \in k..(m - 1) : ~(calls[n].by = by /\ calls[n].op = op)

\* where each drawNormal invocation begins (its save), in order
ArrowStarts(calls) ==
    LET IsStart(k) == calls[k].by = "drawNormal" /\ calls[k].op = "save"
    IN  SelectSeq(Indices(calls), IsStart)

\* the calls of the drawNormal invocation that begins at k
Arrow(calls, k) == SubSeq(calls, k, FirstFrom(calls, k, "drawNormal", "restore"))

Ops(calls) == [k \in 1..Len(calls) |-> calls[k].op]

\* the anchors of the arrows, in order
ArrowAnchors(calls) ==
    LET starts == ArrowStarts(calls)
    IN  [n \in 1..Len(starts) |->
            calls[FirstFrom(calls, starts[n], "drawNormal", "moveTo")].a]

\* a mesh point as the canvas is given it
Flip(point) == << point[1], -point[2] >>

\* the point at `slot` of segment j, by the buffer layout
SegmentSlot(buffer, j, slot) ==
    << At(buffer, (j * 3 + slot) * 2), At(buffer, (j * 3 + slot) * 2 + 1) >>

\* the calls of one segment draw what C7 says, for endpoints p0 and p1 and
\* control point pc, present or not
SegmentArrowsAsClaimed(calls, p0, p1, pc, drawNormalsFlag, drawControlFlag, present) ==
    /\ ArrowAnchors(calls) =
          IF drawNormalsFlag
          THEN << Flip(p0), Flip(p1) >>
               \o (IF drawControlFlag /\ present THEN << Flip(pc) >> ELSE <<>>)
          ELSE <<>>
    /\ \A k \in 1..Len(calls) :
          (calls[k].by = "drawNormal" /\ calls[k].op = "strokeStyle") =>
              calls[k].s = NORMAL_STROKE_STYLES.edge
    /\ \A k, m \in 1..Len(calls) :
          (calls[k].by = "drawNormal" /\ calls[m].by = "drawSegmentVertex") => k < m

\* the calls that draw segment j in the last redraw
SegmentCalls(j) ==
    LET IsSegment(call) == call.pk = "segment" /\ call.pi = j
    IN  SelectSeq(last.calls, IsSegment)

\* drawSegmentVertices has returned
SegmentsDrawn == last.op = "drawSegmentVertices"

\* C7: for every segment, no normal arrow is drawn if drawNormals is false; if
\* it is true, one 'edge' arrow at p0, one at p1, and one at the control point
\* iff drawControl is true and the control point and its normal are present
\* (the control-point slot is not null); and the arrows come before the
\* segment's endpoint markers.
C7_NormalArrows ==
    SegmentsDrawn =>
        \A j \in 0..(DrawnMesh.stencilSegmentCount - 1) :
            /\ SegmentArrowsAsClaimed(SegmentCalls(j),
                                      SegmentSlot(DrawnMesh.stencilSegments, j, 0),
                                      SegmentSlot(DrawnMesh.stencilSegments, j, 2),
                                      SegmentSlot(DrawnMesh.stencilSegments, j, 1),
                                      drawNormals, drawControl,
                                      invoked.controlPointOffset # NULL_OFFSET)
            /\ Len(ArrowStarts(SegmentCalls(j))) \in {0, 2, 3}

\* a segment was drawn with two arrows only, drawControl being off although
\* the control point is there
C7_Witness ==
    /\ SegmentsDrawn /\ drawNormals /\ ~drawControl
    /\ invoked.controlPointOffset = 1
    /\ DrawnMesh.stencilSegmentCount >= 2
    /\ Len(ArrowStarts(SegmentCalls(1))) = 2

\* how many of the calls are strokes
Strokes(calls) ==
    LET IsStroke(call) == call.op = "stroke"
    IN  Len(SelectSeq(calls, IsStroke))

\* C9 as claimed: each call of drawNormal issues exactly three strokes.
C9_ThreeStrokesPerArrow ==
    RedrawnMesh =>
        \A n \in 1..Len(ArrowStarts(last.calls)) :
            Strokes(Arrow(last.calls, ArrowStarts(last.calls)[n])) = 3

\* C9 amended: each call of drawNormal issues exactly two strokes: the first
\* of one path from the anchor to the shaft endpoint and on to the tip of the
\* first wing, the second of the other wing, which starts at the shaft
\* endpoint.
C9_TwoStrokesPerArrow ==
    RedrawnMesh =>
        \A n \in 1..Len(ArrowStarts(last.calls)) :
            LET arrow == Arrow(last.calls, ArrowStarts(last.calls)[n])
            IN  /\ Strokes(arrow) = 2
                /\ Ops(arrow) = << "save", "strokeStyle", "beginPath", "moveTo",
                                   "lineTo", "lineTo", "stroke", "beginPath",
                                   "moveTo", "lineTo", "stroke", "restore" >>
                /\ arrow[9].a = arrow[5].a

\* a redraw drew three arrows for segment 0
C9_Witness ==
    /\ RedrawnMesh /\ last.pre.drawVertices /\ last.pre.drawNormals
    /\ last.pre.drawControl
    /\ DrawnMesh.stencilSegmentCount >= 1
    /\ Len(ArrowStarts(SegmentCalls(0))) = 3

(* ---------------------------- drawing state ---------------------------- *)

\* the drawing state of a fresh 2D context, and of the context before every
\* redraw (each redraw ends by restoring it)
CanvasDefault ==
    [strokeStyle |-> "#000000", fillStyle |-> "#000000", lineWidth |-> 1,
     lineDash |-> <<>>, font |-> "10px sans-serif"]

\* the canvas: its drawing state, the states saved, and whether restore was
\* called with nothing saved, a B-quad or segment changed drawing state outside
\* every save/restore pair (bare), or a segment did outside a pair of its own
CanvasInit ==
    [cur |-> CanvasDefault, stack |-> <<>>, underflow |-> FALSE,
     bare |-> FALSE, segmentLeak |-> FALSE]

Setters == {"strokeStyle", "fillStyle", "lineWidth", "setLineDash", "font"}

\* CanvasRenderingContext2D: the effect of one call on the drawing state
ApplyCall(cv, c) ==
    LET changed == [cv EXCEPT
                      !.bare = cv.bare \/ Len(cv.stack) = 0,
                      !.segmentLeak = cv.segmentLeak
                                      \/ (c.pk = "segment" /\ Len(cv.stack) < 2)]
    IN  CASE c.op = "save" -> [cv EXCEPT !.stack = Append(cv.stack, cv.cur)]
          [] c.op = "restore" ->
               IF Len(cv.stack) = 0
               THEN [cv EXCEPT !.underflow = TRUE]
               ELSE [cv EXCEPT !.cur = cv.stack[Len(cv.stack)],
                               !.stack = SubSeq(cv.stack, 1, Len(cv.stack) - 1)]
          [] c.op = "strokeStyle" -> [changed EXCEPT !.cur.strokeStyle = c.s]
          [] c.op = "fillStyle" -> [changed EXCEPT !.cur.fillStyle = c.s]
          [] c.op = "lineWidth" -> [changed EXCEPT !.cur.lineWidth = c.a[1]]
          [] c.op = "setLineDash" -> [changed EXCEPT !.cur.lineDash = c.a]
          [] c.op = "font" -> [changed EXCEPT !.cur.font = c.s]
          [] OTHER -> [cv EXCEPT !.underflow = cv.underflow]

\* the canvas cv after calls lo..hi, by halves (the test of the first half's
\* result has it computed before the second half is entered)
RECURSIVE CanvasRun(_, _, _, _)
CanvasRun(cv, calls, lo, hi) ==
    IF lo > hi THEN cv
    ELSE IF lo = hi THEN ApplyCall(cv, calls[lo])
    ELSE LET mid == (lo + hi) \div 2
             half == CanvasRun(cv, calls, lo, mid)
         IN  IF half.underflow \in BOOLEAN
             THEN CanvasRun(half, calls, mid + 1, hi)
             ELSE half

\* the canvas after the first n of the calls
CanvasAfter(calls, n) == CanvasRun(CanvasInit, calls, 1, n)

\* where each B-quad and segment begins in the calls, in drawing order
PrimitiveStarts(calls) ==
    LET IsStart(k) ==
            /\ calls[k].pk # "frame"
            /\ k > 1 => << calls[k - 1].pk, calls[k - 1].pi >> # << calls[k].pk, calls[k].pi >>
    IN  SelectSeq(Indices(calls), IsStart)

\* the drawing state in which the primitive beginning at k starts
StateAt(calls, k) == CanvasAfter(calls, k - 1).cur

\* save/restore are balanced and the redraw leaves depth and state as found
Balanced(calls) ==
    LET cv == CanvasAfter(calls, Len(calls))
    IN  ~cv.underflow /\ cv.stack = <<>> /\ cv.cur = CanvasDefault

\* C8 as claimed: every change of drawing state made while drawing a primitive
\* is enclosed in a save/restore pair, so that each primitive starts in the
\* drawing state the previous one started in; save/restore are balanced and the
\* depth after redraw is the depth before.
C8_StateNeverLeaks ==
    Redrawn =>
        LET starts == PrimitiveStarts(last.calls)
        IN  /\ Balanced(last.calls)
            /\ \A n \in 2..Len(starts) :
                  StateAt(last.calls, starts[n]) = StateAt(last.calls, starts[n - 1])

\* C8 amended: save/restore are balanced, the depth and state after redraw are
\* those before, every change of drawing state is inside a save/restore pair,
\* and a segment's changes are inside a pair of that segment's own, so each
\* segment starts in the state the previous segment started in.  The B-quad
\* loop assigns strokeStyle inside redraw's outer pair only: once a B-quad has
\* been drawn every later primitive starts with strokeStyle left at the light
\* stroke colour, all other drawing state being as at the first primitive.
C8_StateScoped ==
    Redrawn =>
        LET starts == PrimitiveStarts(last.calls)
            cv == CanvasAfter(last.calls, Len(last.calls))
            first == StateAt(last.calls, starts[1])
        IN  /\ Balanced(last.calls)
            /\ ~cv.bare /\ ~cv.segmentLeak
            /\ \A n \in 2..Len(starts) :
                  /\ StateAt(last.calls, starts[n]) =
                        IF last.calls[starts[1]].pk = "bquad"
                        THEN [first EXCEPT !.strokeStyle = LIGHT_STROKE_STYLE]
                        ELSE first
                  /\ (last.calls[starts[n]].pk = "segment"
                        /\ last.calls[starts[n - 1]].pk = "segment") =>
                        StateAt(last.calls, starts[n]) = StateAt(last.calls, starts[n - 1])

\* a redraw drew at least two B-quads and two segments, control hulls included
C8_Witness ==
    /\ RedrawnMesh /\ last.pre.drawVertices /\ last.pre.drawControl
    /\ DrawnMesh.bQuadVertexPositionCount >= 2
    /\ DrawnMesh.stencilSegmentCount >= 2
    /\ Len(PrimitiveStarts(last.calls)) >= 4
    /\ HasOp(last.calls, "setLineDash")

(* ----------------------------- buffer reads ---------------------------- *)

\* the format's stride of a buffer in points, its slots, and its record count
Stride(buf) == IF buf = "bQuadVertexPositions" THEN 6 ELSE 3
Slots(buf) == IF buf = "bQuadVertexPositions" THEN 0..5 ELSE {0, 1, 2}
Count(buf) ==
    IF buf = "bQuadVertexPositions"
    THEN DrawnMesh.bQuadVertexPositionCount
    ELSE DrawnMesh.stencilSegmentCount
BufferLen(buf) ==
    IF buf = "bQuadVertexPositions" THEN Len(DrawnMesh.bQuadVertexPositions)
    ELSE IF buf = "stencilSegments" THEN Len(DrawnMesh.stencilSegments)
    ELSE Len(DrawnMesh.stencilNormals)

\* C10: every buffer read of a redraw is at offset
\* (primitiveIndex * stride + slot) * 2 + component, stride 6 and slots 0..5 for
\* B-quads, stride 3 and slots 0, 1, 2 for segments and their normals; the
\* offset lies in [0, count * stride * 2), inside the buffer, and distinct
\* (primitiveIndex, slot, component) read distinct offsets of a buffer.
C10_BufferAddressing ==
    RedrawnMesh =>
        /\ \A r \in last.reads :
              /\ r.prim \in 0..(Count(r.buf) - 1)
              /\ r.slot \in Slots(r.buf)
              /\ r.comp \in {0, 1}
              /\ r.off = (r.prim * Stride(r.buf) + r.slot) * 2 + r.comp
              /\ r.off >= 0
              /\ r.off < Count(r.buf) * Stride(r.buf) * 2
              /\ r.off < BufferLen(r.buf)
        /\ \A r1, r2 \in last.reads :
              (r1.buf = r2.buf /\ r1.off = r2.off) => r1 = r2

\* a redraw read the second B-quad and the second segment's control normal
C10_Witness ==
    /\ RedrawnMesh
    /\ \E r \in last.reads :
          r.buf = "bQuadVertexPositions" /\ r.prim = 1 /\ r.slot = 5 /\ r.comp = 1
    /\ \E r \in last.reads :
          r.buf = "stencilNormals" /\ r.prim = 1 /\ r.slot = 1 /\ r.comp = 1

(* ------------------------------- Y flip -------------------------------- *)

\* the calls that take a point of the path or of an arc
PathOps == {"moveTo", "lineTo", "quadraticCurveTo", "arc"}

\* the points a path or arc call is given: two for a quadratic curve, the
\* centre for an arc
Coordinates(call) ==
    IF call.op = "quadraticCurveTo"
    THEN { << call.a[1], call.a[2] >>, << call.a[3], call.a[4] >> }
    ELSE { << call.a[1], call.a[2] >> }

\* the point at vertex `slot` of B-quad i, by the buffer layout
BQuadSlot(buffer, i, slot) ==
    << At(buffer, (i * 6 + slot) * 2), At(buffer, (i * 6 + slot) * 2 + 1) >>

\* the mesh points of primitive (pk, pi) of the mesh drawn last
MeshPoints(pk, pi) ==
    IF pk = "bquad"
    THEN { BQuadSlot(DrawnMesh.bQuadVertexPositions, pi, v) : v \in 0..5 }
    ELSE IF pk = "segment"
    THEN { SegmentSlot(DrawnMesh.stencilSegments, pi, s) : s \in 0..2 }
    ELSE {}

\* every point the call is given is a mesh point of its primitive, y negated
GivenFlipped(call) ==
    \A xy \in Coordinates(call) :
        \E p \in MeshPoints(call.pk, call.pi) : xy = << p[1], -p[2] >>

\* the shaft length of an 'edge' arrow at the camera scale of the last redraw
ShaftLength == (DEVICE_PIXEL_RATIO \div camera) * NORMAL_LENGTHS.edge

\* the slot of a segment the n-th of its arrows is anchored at
ArrowSlot(n) == << 0, 2, 1 >>[n]

\* the n-th arrow of segment j starts at its anchor (x, -y) and has its shaft
\* end at (x + L * nx, -y - L * ny)
ArrowShaftAsClaimed(j, n) ==
    LET calls == SegmentCalls(j)
        arrow == Arrow(calls, ArrowStarts(calls)[n])
        p == SegmentSlot(DrawnMesh.stencilSegments, j, ArrowSlot(n))
        nv == SegmentSlot(DrawnMesh.stencilNormals, j, ArrowSlot(n))
    IN  /\ arrow[4].op = "moveTo"
        /\ arrow[4].a = << p[1], -p[2] >>
        /\ arrow[5].op = "lineTo"
        /\ arrow[5].a = << p[1] + ShaftLength * nv[1],
                           (-p[2]) - ShaftLength * nv[2] >>

\* C11: every mesh point (x, y) a redraw passes to moveTo, lineTo,
\* quadraticCurveTo or arc, for a B-quad or for a segment, is passed as
\* (x, -y); and the shaft of the normal arrow at anchor (x, y) with normal
\* (nx, ny) and shaft length L ends at (x + L * nx, -y - L * ny).
C11_YFlip ==
    RedrawnMesh =>
        /\ \A k \in 1..Len(last.calls) :
              (last.calls[k].op \in PathOps /\ last.calls[k].by # "drawNormal") =>
                  GivenFlipped(last.calls[k])
        /\ \A j \in 0..(DrawnMesh.stencilSegmentCount - 1) :
              \A n \in 1..Len(ArrowStarts(SegmentCalls(j))) :
                  ArrowShaftAsClaimed(j, n)

\* a redraw drew corner dots, a B-quad edge curve and the three arrows of a
\* segment whose first normal has a y component
C11_Witness ==
    /\ RedrawnMesh /\ last.pre.drawVertices /\ last.pre.drawNormals
    /\ last.pre.drawControl
    /\ HasOp(last.calls, "arc") /\ HasOp(last.calls, "quadraticCurveTo")
    /\ DrawnMesh.bQuadVertexPositionCount >= 1
    /\ DrawnMesh.stencilSegmentCount >= 1
    /\ Len(ArrowStarts(SegmentCalls(0))) = 3
    /\ SegmentSlot(DrawnMesh.stencilNormals, 0, 0)[2] # 0
    /\ BQuadSlot(DrawnMesh.bQuadVertexPositions, 0, 3)[2] > 0

(* --------------------------- segment chords ---------------------------- *)

\* the calls stroke a plain chord: the chord's colour is set, or
\* drawSegmentVertices itself strokes a path of one moveTo and one lineTo
ChordStroked(calls) ==
    \/ HasStyle(calls, SEGMENT_LINE_STROKE_STYLE)
    \/ \E k \in 1..(Len(calls) - 2) :
          /\ calls[k].by = "drawSegmentVertices" /\ calls[k].op = "moveTo"
          /\ calls[k + 1].by = "drawSegmentVertices" /\ calls[k + 1].op = "lineTo"
          /\ calls[k + 2].by = "drawSegmentVertices" /\ calls[k + 2].op = "stroke"

\* C12: drawSegments is false in every reachable state: it starts false, no
\* key press ('r' included) and no other event changes it, and so no redraw
\* strokes the plain chord from p0 to p1 of a segment.
C12_DrawSegmentsStaysFalse ==
    /\ ~drawSegments
    /\ \A key \in Keys : onKeyPress(Overlay, key).drawSegments = drawSegments
    /\ last.op = "onKeyPress" => ~last.pre.drawSegments
    /\ Redrawn => (~last.pre.drawSegments /\ ~ChordStroked(last.calls))

\* after key presses that left drawNormals off, a redraw drew the segments
\* of a mesh, control hulls included, and no chord
C12_Witness ==
    /\ RedrawnMesh /\ last.pre.drawVertices /\ last.pre.drawControl
    /\ ~last.pre.drawNormals /\ ~drawSegments
    /\ DrawnMesh.stencilSegmentCount >= 2
    /\ HasStyle(last.calls, SEGMENT_CONTROL_POINT_HULL_STROKE_STYLE)
    /\ ~ChordStroked(last.calls)

(* ------------------------------ loadPath ------------------------------- *)

\* loadPath has started at least one partition and every promise has resolved
AllResolved == latest # NULL_MESH /\ pending = <<>>

\* a promise's callback assigned meshes and, through attachMeshes, set dirty
AssignmentRequestsRedraw ==
    last.op = "partitionResolved" => (last.setDirty /\ dirty /\ meshes # NULL_MESH)

\* loadPath with no file loaded returned without touching meshes or dirty
NoFileNoLoad ==
    (last.op = "loadPath" /\ file = "null") =>
        (meshes = last.preMeshes /\ dirty = last.preDirty /\ pending = <<>>)

\* C13: once the promises of the loadPath calls have all resolved, in
\* whatever order, meshes is the result of the loadPath invoked last; every
\* assignment to meshes comes with a redraw request in the same step; and a
\* loadPath with no file loaded changes neither meshes nor the dirty flag.
C13_LatestLoadWins ==
    /\ AllResolved => meshes = latest
    /\ AssignmentRequestsRedraw
    /\ NoFileNoLoad

=============================================================================
